---- MODULE Spec2Model ----
(***************************************************************************)
(* Model of src/ingest_kaggle.py: the catalog ingestion pipeline.          *)
(*                                                                         *)
(* Python values are represented as follows.                               *)
(*   - a dict is a record / function; an absent field is a field outside   *)
(*     DOMAIN, and item.get(f) of an absent field is None;                 *)
(*   - an insertion-ordered dict whose order the code relies on            *)
(*     (all_products[cat], results[cat]) is the sequence of its values in  *)
(*     insertion order, keyed by the parent_asin field of each value;      *)
(*   - a text (title, price) is a sequence of one-character strings, and   *)
(*     None where a text is expected is the one-element sequence NoneText; *)
(*   - an external stream is a finite sequence of records fixed when the   *)
(*     stream is opened; ds is the part not yet read.                      *)
(***************************************************************************)
EXTENDS Integers, Sequences, FiniteSets, TLC

VARIABLES
    pc,                     \* position of the program
    argv,                   \* the names behind --categories on the command line
    categories,             \* args.categories (command line order, repeats kept)
    products_per_category,  \* args.products_per_category
    reviews_per_product,    \* args.reviews_per_product
    all_products,           \* main: cat -> insertion-ordered products
    meta_i,                 \* main: position in meta_sources_by_path
    review_asins_by_path,   \* main: review path -> set of asins
    rev_i,                  \* main: position in review_sources_by_path
    all_reviews,            \* main: asin -> review sequence
    full_catalog,           \* main: the records transformed so far
    output,                 \* the written JSON document (NotWritten before line 349)
    source,                 \* argument of the running multiplexer: the path
    ds,                     \* the open stream: records not yet read
    scanned,                \* records read by the running pass
    category_configs,       \* stream_metadata_multi: the categories passed in, in order
    category_limits,        \* stream_metadata_multi: cat -> capacity in this pass
    results,                \* stream_metadata_multi: cat -> insertion-ordered products
    full_categories,        \* stream_metadata_multi
    asin_set,               \* fetch_reviews_multi: requested keys
    per_product,            \* fetch_reviews_multi
    max_scan,               \* fetch_reviews_multi
    candidates,             \* fetch_reviews_multi: asin -> reviews appended so far
    satisfied,              \* fetch_reviews_multi
    reviews,                \* fetch_reviews_multi: the returned map
    arg_price_str,          \* parse_price called on its own: the argument price_str
    ret_value,              \* parse_price called on its own: the returned value
    seen,                   \* history: the records of requested keys read by the
                            \*          running fetch_reviews_multi pass
    raised,                 \* the path of the source whose stream raised ("" while none has)
    opened,                 \* history: phase -> path -> number of _open_stream calls
    avail,                  \* history: cat -> keys of valid matching records in the
                            \*          opened metadata streams of the category
    log                     \* history: one entry per fetch_reviews_multi call of main

vars == <<pc, argv, categories, products_per_category, reviews_per_product, all_products,
          meta_i, review_asins_by_path, rev_i, all_reviews, full_catalog, output,
          source, ds, scanned, category_configs, category_limits, results,
          full_categories, asin_set, per_product, max_scan, candidates, satisfied,
          reviews, arg_price_str, ret_value, seen, raised, opened, avail, log>>

\* the variables of a parse_price call made on its own
price_vars == <<arg_price_str, ret_value>>

-----------------------------------------------------------------------------
(* Bounds of the model *)

\* longest external stream
MaxStream == 2
\* largest --products-per-category
MaxProducts == 2
\* largest --reviews-per-product, and largest per_product of an isolated call
MaxReviews == 2
\* largest max_scan of an isolated fetch_reviews_multi call
MaxScan == 2
MaxPriceLen == 3
MaxPassStream == 3

\* default of the max_scan parameter
DefaultMaxScan == 5000000

-----------------------------------------------------------------------------
(* Generic helpers *)

RECURSIVE SeqsUpTo(_, _)
SeqsUpTo(S, n) ==
    IF n = 0 THEN {<<>>}
    ELSE LET shorter == SeqsUpTo(S, n - 1)
         IN  shorter \cup {Append(s, x) : s \in {t \in shorter : Len(t) = n - 1}, x \in S}

Range(s) == {s[i] : i \in 1..Len(s)}

\* first-occurrence order of the elements of s: the key order of a dict
\* filled by d[x] = ... for x in s
RECURSIVE Dedup(_)
Dedup(s) ==
    IF s = <<>> THEN <<>>
    ELSE LET front == Dedup(SubSeq(s, 1, Len(s) - 1))
             x     == s[Len(s)]
         IN  IF x \in Range(front) THEN front ELSE Append(front, x)

RECURSIVE Flatten(_)
Flatten(ss) == IF ss = <<>> THEN <<>> ELSE Head(ss) \o Flatten(Tail(ss))

Min(a, b) == IF a <= b THEN a ELSE b

\* None where a text is expected
NoneText == <<"<None>">>
\* None where a number or a record is expected
NoneVal == [none |-> TRUE]

\* item.get(field) for a text field
GetText(item, field) == IF field \in DOMAIN item THEN item[field] ELSE NoneText

-----------------------------------------------------------------------------
(* The source registry *)

_parquet(category_dir) == [fmt |-> "parquet", path |-> category_dir]

_jsonl_meta(name) == [fmt |-> "json", path |-> name]

_jsonl_review(name) == [fmt |-> "json", path |-> name]

\* CATEGORY_CONFIGS; a path stands for the text after HF_BASE that tells the
\* sources apart (metadata and review paths are never equal).
CATEGORY_CONFIGS ==
    [c \in {"Wireless Headphones", "Smartwatches", "Mechanical Keyboards",
            "Gaming Mice", "Toothbrushes", "Running Shoes"} |->
        CASE c = "Wireless Headphones" ->
               [meta_sources   |-> <<_parquet("raw_meta_Electronics")>>,
                review_sources |-> <<_jsonl_review("review_categories/Electronics")>>,
                keywords       |-> <<"wireless headphone", "bluetooth headphone",
                                     "wireless earbud", "bluetooth earbud",
                                     "true wireless">>]
          [] c = "Smartwatches" ->
               [meta_sources   |-> <<_parquet("raw_meta_Electronics"),
                                     _parquet("raw_meta_Cell_Phones_and_Accessories")>>,
                review_sources |-> <<_jsonl_review("review_categories/Electronics"),
                                     _jsonl_review("review_categories/Cell_Phones_and_Accessories")>>,
                keywords       |-> <<"smartwatch", "smart watch", "fitness tracker">>]
          [] c = "Mechanical Keyboards" ->
               [meta_sources   |-> <<_parquet("raw_meta_Electronics")>>,
                review_sources |-> <<_jsonl_review("review_categories/Electronics")>>,
                keywords       |-> <<"mechanical keyboard", "gaming keyboard">>]
          [] c = "Gaming Mice" ->
               [meta_sources   |-> <<_parquet("raw_meta_Electronics")>>,
                review_sources |-> <<_jsonl_review("review_categories/Electronics")>>,
                keywords       |-> <<"gaming mouse", "gaming mice", "esports mouse">>]
          [] c = "Toothbrushes" ->
               [meta_sources   |-> <<_jsonl_meta("meta_categories/meta_Health_and_Household")>>,
                review_sources |-> <<_jsonl_review("review_categories/Health_and_Household")>>,
                keywords       |-> <<"electric toothbrush", "toothbrush">>]
          [] c = "Running Shoes" ->
               [meta_sources   |-> <<_jsonl_meta("meta_categories/meta_Sports_and_Outdoors"),
                                     _jsonl_meta("meta_categories/meta_Clothing_Shoes_and_Jewelry")>>,
                review_sources |-> <<_jsonl_review("review_categories/Sports_and_Outdoors"),
                                     _jsonl_review("review_categories/Clothing_Shoes_and_Jewelry")>>,
                keywords       |-> <<"running shoe", "running shoes">>]]

CategoryNames == DOMAIN CATEGORY_CONFIGS

MetaPaths ==
    UNION {{s.path : s \in Range(CATEGORY_CONFIGS[c].meta_sources)} : c \in CategoryNames}

ReviewPaths ==
    UNION {{s.path : s \in Range(CATEGORY_CONFIGS[c].review_sources)} : c \in CategoryNames}

-----------------------------------------------------------------------------
(* Field normalizers *)

Digits == {"0", "1", "2", "3", "4", "5", "6", "7", "8", "9"}

DigitValue(ch) ==
    CASE ch = "0" -> 0 [] ch = "1" -> 1 [] ch = "2" -> 2 [] ch = "3" -> 3
      [] ch = "4" -> 4 [] ch = "5" -> 5 [] ch = "6" -> 6 [] ch = "7" -> 7
      [] ch = "8" -> 8 [] ch = "9" -> 9

\* re.sub(r"[^\d.]", "", text): the digits and decimal points of the text
RECURSIVE Cleaned(_)
Cleaned(text) ==
    IF text = <<>> THEN <<>>
    ELSE IF Head(text) \in Digits \cup {"."}
         THEN <<Head(text)>> \o Cleaned(Tail(text))
         ELSE Cleaned(Tail(text))

CountDots(text) == Cardinality({i \in 1..Len(text) : text[i] = "."})

\* the integer written by a sequence of digits (0 for the empty sequence)
RECURSIVE DigitsToInt(_)
DigitsToInt(text) ==
    IF text = <<>> THEN 0
    ELSE 10 * DigitsToInt(SubSeq(text, 1, Len(text) - 1)) + DigitValue(text[Len(text)])

\* float(cleaned) for a text of digits and points: ValueError (NoneVal) unless
\* the text has at most one point and at least one digit; otherwise the
\* decimal number num / 10^scale
FloatOf(cleaned) ==
    IF CountDots(cleaned) > 1 \/ CountDots(cleaned) = Len(cleaned) THEN NoneVal
    ELSE LET dot    == IF CountDots(cleaned) = 0 THEN Len(cleaned) + 1
                       ELSE CHOOSE i \in 1..Len(cleaned) : cleaned[i] = "."
             whole  == SubSeq(cleaned, 1, dot - 1)
             frac   == SubSeq(cleaned, dot + 1, Len(cleaned))
         IN  [num |-> DigitsToInt(whole \o frac), scale |-> Len(frac)]

\* (mutant) zero passes the test of line 87
parse_price_nonneg(price_str) ==
    IF price_str = NoneText \/ price_str = <<>> \/ price_str = <<"N", "o", "n", "e">>
    THEN NoneVal
    ELSE LET cleaned == Cleaned(price_str)
         IN  IF cleaned = <<>> THEN NoneVal
             ELSE FloatOf(cleaned)

parse_price(price_str) ==
    IF price_str = NoneText \/ price_str = <<>> \/ price_str = <<"N", "o", "n", "e">>
    THEN NoneVal
    ELSE LET cleaned == Cleaned(price_str)
         IN  IF cleaned = <<>> THEN NoneVal
             ELSE LET value == FloatOf(cleaned)
                  IN  IF value = NoneVal THEN NoneVal
                      ELSE IF value.num > 0 THEN value ELSE NoneVal

\* An item carries in "mentions" the lower-case phrases that occur in its
\* lower-cased title or in its flattened, lower-cased categories text; the
\* substring test kw.lower() in title or kw.lower() in cat_text is
\* membership in that set (the registry's keywords are lower-case).
matches_keywords(item, keywords) ==
    \E i \in 1..Len(keywords) : keywords[i] \in item.mentions

\* title.strip(): leading and trailing blanks removed
RECURSIVE LStrip(_)
LStrip(text) ==
    IF text # <<>> /\ Head(text) = " " THEN LStrip(Tail(text)) ELSE text

RECURSIVE RStrip(_)
RStrip(text) ==
    IF text # <<>> /\ text[Len(text)] = " " THEN RStrip(SubSeq(text, 1, Len(text) - 1))
    ELSE text

Strip(text) == RStrip(LStrip(text))

-----------------------------------------------------------------------------
(* The records the external streams can hold *)

GoodPrice == <<"$", "9">>

\* RawMetaRecords: two keys, one key under two different records, and a
\* record that fails the validity test under a key that has reviews
MetaItems ==
    { [parent_asin |-> "B01", title |-> <<"W", "1">>, price |-> GoodPrice,
       mentions |-> {"smartwatch", "bluetooth headphone", "toothbrush"}],
      [parent_asin |-> "B02", title |-> <<"W", "2">>, price |-> GoodPrice,
       mentions |-> {"smart watch"}],
      [parent_asin |-> "B01", title |-> <<"W", "3">>, price |-> GoodPrice,
       mentions |-> {"fitness tracker", "true wireless"}],
      [parent_asin |-> "B02", title |-> <<"W", "4">>, price |-> <<"0">>,
       mentions |-> {"smartwatch", "wireless earbud"}] }

\* RawReviewRecords; verified_purchase and helpful_vote may be absent
ReviewItems ==
    { [parent_asin |-> "B01", verified_purchase |-> TRUE, helpful_vote |-> 1],
      [parent_asin |-> "B01"],
      [parent_asin |-> "B02", verified_purchase |-> FALSE, helpful_vote |-> 2] }

MetaStreams == SeqsUpTo(MetaItems, MaxStream)

\* RawMetaRecords for a pass of stream_metadata_multi on its own: a record
\* matching two categories, one matching the first only, one matching the
\* second only, and records with a zero price, a blank title and no
\* parent_asin that match both
PassItems ==
    { [parent_asin |-> "B01", title |-> <<"W", "1">>, price |-> GoodPrice,
       mentions |-> {"smartwatch", "bluetooth headphone", "toothbrush"}],
      [parent_asin |-> "B02", title |-> <<"W", "2">>, price |-> GoodPrice,
       mentions |-> {"smart watch"}],
      [parent_asin |-> "B03", title |-> <<"W", "5">>, price |-> GoodPrice,
       mentions |-> {"wireless earbud"}],
      [parent_asin |-> "B03", title |-> <<"W", "4">>, price |-> <<"0">>,
       mentions |-> {"smartwatch", "wireless earbud"}],
      [parent_asin |-> "B02", title |-> <<" ">>, price |-> GoodPrice,
       mentions |-> {"smartwatch", "wireless earbud"}],
      [title |-> <<"W", "6">>, price |-> GoodPrice,
       mentions |-> {"smartwatch", "wireless earbud"}] }

PassStreams == SeqsUpTo(PassItems, MaxPassStream)

ReviewStreams == SeqsUpTo(ReviewItems, MaxStream)

\* the modelled --categories lists: one source, two sources, a repeated
\* name, a source shared by two categories in either order, and disjoint
\* sources with another category's source between the two of a category
CommandLines ==
    { <<"Wireless Headphones">>,
      <<"Smartwatches">>,
      <<"Smartwatches", "Smartwatches">>,
      <<"Smartwatches", "Wireless Headphones">>,
      <<"Wireless Headphones", "Toothbrushes", "Smartwatches">> }

\* command lines with a name that is not a key of CATEGORY_CONFIGS
RejectedLines ==
    { <<"Laptops">>, <<"Smartwatches", "Laptops">> }

-----------------------------------------------------------------------------
(* Insertion-ordered dicts keyed by parent_asin *)

Keys(products) == {products[i].parent_asin : i \in 1..Len(products)}

\* d[item.parent_asin] = item: a new key is appended, a key already present
\* keeps its position and gets the new value
DictSet(products, item) ==
    IF item.parent_asin \in Keys(products)
    THEN [i \in 1..Len(products) |->
            IF products[i].parent_asin = item.parent_asin THEN item ELSE products[i]]
    ELSE Append(products, item)

RECURSIVE DictSetAll(_, _)
DictSetAll(products, items) ==
    IF items = <<>> THEN products
    ELSE DictSetAll(DictSet(products, Head(items)), Tail(items))

\* seq[:n] for n >= 0
Slice(seq, n) == SubSeq(seq, 1, Min(n, Len(seq)))

EmptyMap == [k \in {} |-> <<>>]

\* (mutant) the batch takes the place of the map
Update_fresh(d, batch) == batch

\* d.update(batch)
Update(d, batch) ==
    [k \in DOMAIN d \cup DOMAIN batch |-> IF k \in DOMAIN batch THEN batch[k] ELSE d[k]]

\* d.get(k, [])
GetOrEmpty(d, k) == IF k \in DOMAIN d THEN d[k] ELSE <<>>

-----------------------------------------------------------------------------
(* main: the indices *)

\* the keys of selected, in order
Selected == Dedup(categories)

MetaPathsOf(cat) ==
    [i \in 1..Len(CATEGORY_CONFIGS[cat].meta_sources) |->
        CATEGORY_CONFIGS[cat].meta_sources[i].path]

ReviewPathsOf(cat) ==
    [i \in 1..Len(CATEGORY_CONFIGS[cat].review_sources) |->
        CATEGORY_CONFIGS[cat].review_sources[i].path]

\* (mutant) one entry per category and source: a path is not a dict key
meta_sources_by_path_list ==
    Flatten([i \in 1..Len(Selected) |-> MetaPathsOf(Selected[i])])

\* the keys of meta_sources_by_path, in order
meta_sources_by_path ==
    Dedup(Flatten([i \in 1..Len(Selected) |-> MetaPathsOf(Selected[i])]))

\* the keys of meta_cats_by_path[path], in order
meta_cats_by_path(path) ==
    LET Uses(cat) == path \in Range(MetaPathsOf(cat))
    IN  SelectSeq(Selected, Uses)

\* the keys of review_sources_by_path, in order
review_sources_by_path ==
    Dedup(Flatten([i \in 1..Len(Selected) |-> ReviewPathsOf(Selected[i])]))

\* (mutant) a category's asins go to its first review source only
ReviewAsinsIndex_first ==
    [path \in Range(review_sources_by_path) |->
        UNION {Keys(all_products[cat]) :
                 cat \in {c \in Range(Selected) : path = ReviewPathsOf(c)[1]}}]

\* review_asins_by_path as built by lines 316-320
ReviewAsinsIndex ==
    [path \in Range(review_sources_by_path) |->
        UNION {Keys(all_products[cat]) :
                 cat \in {c \in Range(Selected) : path \in Range(ReviewPathsOf(c))}}]

\* (mutant) every category of the source, at capacity or not
active_cats_all(path) == meta_cats_by_path(path)

\* lines 291-294: the categories still under capacity when a metadata source
\* is reached
active_cats(path) ==
    LET Under(cat) == Len(all_products[cat]) < products_per_category
    IN  SelectSeq(meta_cats_by_path(path), Under)

\* (mutant) the keys already in all_reviews are not taken out
needed_all(path) == review_asins_by_path[path]

\* needed, line 325
needed(path) == review_asins_by_path[path] \ DOMAIN all_reviews

-----------------------------------------------------------------------------
(* stream_metadata_multi *)

NoneStr == "<None>"

\* item.get("parent_asin")
GetAsin(item) == IF "parent_asin" \in DOMAIN item THEN item.parent_asin ELSE NoneStr

\* (mutant) the price is not looked at
IsValid_noprice(item) ==
    LET title == GetText(item, "title")
    IN  /\ ~(title = NoneText \/ title = <<>> \/ Strip(title) = <<>>)
        /\ ~(GetAsin(item) = NoneStr \/ GetAsin(item) = "")

\* lines 147-154: the record is not skipped
IsValid(item) ==
    LET title == GetText(item, "title")
    IN  /\ ~(title = NoneText \/ title = <<>> \/ Strip(title) = <<>>)
        /\ parse_price(GetText(item, "price")) # NoneVal
        /\ ~(GetAsin(item) = NoneStr \/ GetAsin(item) = "")

\* (mutant) a full category is not left out
Inserts_full(item, cat) ==
    /\ GetAsin(item) \notin Keys(results[cat])
    /\ matches_keywords(item, CATEGORY_CONFIGS[cat].keywords)

\* lines 157-159: the record is inserted into results[cat]
Inserts(item, cat) ==
    /\ cat \notin full_categories
    /\ GetAsin(item) \notin Keys(results[cat])
    /\ matches_keywords(item, CATEGORY_CONFIGS[cat].keywords)

\* (mutant) full only once the capacity is exceeded
ReachedLimit_above(count, limit) == count > limit

\* line 161: the category has reached its capacity
ReachedLimit(count, limit) == count >= limit

\* (mutant) the loop is never left on the categories being full
AllFull_never(full, configs) == FALSE

\* line 164: every requested category is full
AllFull(full, configs) == Cardinality(full) >= Len(configs)

\* the keys of the valid records of a stream that match a category
MatchingKeys(stream, cat) ==
    {GetAsin(stream[i]) : i \in {j \in 1..Len(stream) :
        /\ IsValid(stream[j])
        /\ matches_keywords(stream[j], CATEGORY_CONFIGS[cat].keywords)}}

\* lines 132-139: the source is opened, yielding one of the streams, and the
\* locals are initialised
SmmOpen(streams) ==
    /\ pc = "smm_entry"
    /\ \E stream \in streams :
         /\ ds' = stream
         /\ avail' = [c \in DOMAIN avail |->
                        IF source \in Range(MetaPathsOf(c))
                        THEN avail[c] \cup MatchingKeys(stream, c) ELSE avail[c]]
    /\ opened' = [opened EXCEPT !.meta[source] = @ + 1]
    /\ results' = [cat \in Range(category_configs) |-> <<>>]
    /\ full_categories' = {}
    /\ scanned' = 0
    /\ pc' = "smm_loop"
    /\ UNCHANGED <<price_vars, argv, raised, seen,
                   categories, products_per_category, reviews_per_product, all_products,
                   meta_i, review_asins_by_path, rev_i, all_reviews, full_catalog, output,
                   source, category_configs, category_limits, asin_set, per_product,
                   max_scan, candidates, satisfied, reviews, log>>

\* the call made by main
SmmEntry == SmmOpen(MetaStreams)

\* the call made on its own
SmmEntryAlone == SmmOpen(PassStreams)

\* lines 141-165: one iteration of the loop over the stream
SmmRecord ==
    /\ pc = "smm_loop"
    /\ ds # <<>>
    /\ LET item == Head(ds)
           new_results ==
               [cat \in DOMAIN results |->
                   IF IsValid(item) /\ Inserts(item, cat)
                   THEN Append(results[cat], item) ELSE results[cat]]
           new_full ==
               full_categories \cup
               {cat \in DOMAIN results :
                   /\ IsValid(item) /\ Inserts(item, cat)
                   /\ ReachedLimit(Len(new_results[cat]), category_limits[cat])}
       IN  /\ ds' = Tail(ds)
           /\ scanned' = scanned + 1
           /\ results' = new_results
           /\ full_categories' = new_full
           /\ pc' = IF IsValid(item) /\ AllFull(new_full, category_configs)
                    THEN "smm_return" ELSE "smm_loop"
    /\ UNCHANGED <<price_vars, argv, raised, seen,
                   categories, products_per_category, reviews_per_product, all_products,
                   meta_i, review_asins_by_path, rev_i, all_reviews, full_catalog, output,
                   source, category_configs, category_limits, asin_set, per_product,
                   max_scan, candidates, satisfied, reviews, opened, avail, log>>

\* line 141: the stream is exhausted; lines 167-170
SmmExhausted ==
    /\ pc = "smm_loop"
    /\ ds = <<>>
    /\ pc' = "smm_return"
    /\ UNCHANGED <<price_vars, argv, raised, seen,
                   categories, products_per_category, reviews_per_product, all_products,
                   meta_i, review_asins_by_path, rev_i, all_reviews, full_catalog, output,
                   source, ds, scanned, category_configs, category_limits, results,
                   full_categories, asin_set, per_product, max_scan, candidates,
                   satisfied, reviews, opened, avail, log>>

-----------------------------------------------------------------------------
(* fetch_reviews_multi *)

\* the sort key of line 220
SortKey(r) ==
    <<IF "verified_purchase" \in DOMAIN r /\ r.verified_purchase THEN 1 ELSE 0,
      IF "helpful_vote" \in DOMAIN r THEN r.helpful_vote ELSE 0>>

\* tuple comparison a < b
KeyLess(a, b) == a[1] < b[1] \/ (a[1] = b[1] /\ a[2] < b[2])

\* (mutant) the candidates are left in stream order
InsertDesc_append(sorted, r) == Append(sorted, r)

\* r placed behind every element whose key is not smaller: equal keys keep
\* their order, as list.sort(reverse=True) leaves them
InsertDesc(sorted, r) ==
    LET smaller == {i \in 1..Len(sorted) : KeyLess(SortKey(sorted[i]), SortKey(r))}
        at == IF smaller = {} THEN Len(sorted) + 1
              ELSE CHOOSE i \in smaller : \A j \in smaller : i <= j
    IN  SubSeq(sorted, 1, at - 1) \o <<r>> \o SubSeq(sorted, at, Len(sorted))

\* revs.sort(key=..., reverse=True), lines 219-222
RECURSIVE SortDesc(_)
SortDesc(revs) ==
    IF revs = <<>> THEN <<>>
    ELSE InsertDesc(SortDesc(SubSeq(revs, 1, Len(revs) - 1)), revs[Len(revs)])

\* line 207: the key has reached its cap
IsSatisfied(count, cap) == count >= cap

\* (mutant) the loop is never left on the keys being satisfied
AllSatisfied_never(sat, asins) == FALSE

\* line 210: every requested key is satisfied
AllSatisfied(sat, asins) == Cardinality(sat) >= Cardinality(asins)

\* lines 186-195: the early return, or the source is opened and the locals
\* are initialised
FetchEntry ==
    /\ pc = "fetch_entry"
    /\ IF asin_set = {}
       THEN /\ reviews' = EmptyMap
            /\ pc' = "fetch_return"
            /\ UNCHANGED <<ds, opened, candidates, satisfied, scanned>>
       ELSE /\ ds' \in ReviewStreams
            /\ opened' = [opened EXCEPT !.review[source] = @ + 1]
            /\ candidates' = EmptyMap
            /\ satisfied' = {}
            /\ scanned' = 0
            /\ pc' = "fetch_loop"
            /\ UNCHANGED reviews
    /\ UNCHANGED <<price_vars, argv, raised, seen,
                   categories, products_per_category, reviews_per_product, all_products,
                   meta_i, review_asins_by_path, rev_i, all_reviews, full_catalog, output,
                   source, category_configs, category_limits, results, full_categories,
                   asin_set, per_product, max_scan, avail, log>>

\* lines 197-215: one iteration of the loop over the stream
FetchRecord ==
    /\ pc = "fetch_loop"
    /\ ds # <<>>
    /\ LET item == Head(ds)
           asin == GetAsin(item)
           skip == asin \notin asin_set \/ asin \in satisfied
           new_candidates ==
               IF skip THEN candidates
               ELSE [k \in DOMAIN candidates \cup {asin} |->
                        IF k = asin THEN Append(GetOrEmpty(candidates, asin), item)
                        ELSE candidates[k]]
           new_satisfied ==
               IF ~skip /\ IsSatisfied(Len(new_candidates[asin]), per_product)
               THEN satisfied \cup {asin} ELSE satisfied
       IN  /\ ds' = Tail(ds)
           /\ scanned' = scanned + 1
           /\ candidates' = new_candidates
           /\ satisfied' = new_satisfied
           /\ seen' = IF asin \in asin_set THEN seen \cup {item} ELSE seen
           /\ pc' = IF skip THEN "fetch_loop"
                    ELSE IF AllSatisfied(new_satisfied, asin_set) THEN "fetch_sort"
                    ELSE IF scanned + 1 >= max_scan THEN "fetch_sort"
                    ELSE "fetch_loop"
    /\ UNCHANGED <<price_vars, argv, raised,
                   categories, products_per_category, reviews_per_product, all_products,
                   meta_i, review_asins_by_path, rev_i, all_reviews, full_catalog, output,
                   source, category_configs, category_limits, results, full_categories,
                   asin_set, per_product, max_scan, reviews, opened, avail, log>>

\* line 197: the stream is exhausted
FetchExhausted ==
    /\ pc = "fetch_loop"
    /\ ds = <<>>
    /\ pc' = "fetch_sort"
    /\ UNCHANGED <<price_vars, argv, raised, seen,
                   categories, products_per_category, reviews_per_product, all_products,
                   meta_i, review_asins_by_path, rev_i, all_reviews, full_catalog, output,
                   source, ds, scanned, category_configs, category_limits, results,
                   full_categories, asin_set, per_product, max_scan, candidates,
                   satisfied, reviews, opened, avail, log>>

\* (mutant) the sorted candidates are not truncated
Kept_uncut(revs, cap) == SortDesc(revs)

\* lines 217-223: what is kept of one key's candidates
Kept(revs, cap) == Slice(SortDesc(revs), cap)

\* lines 217-226: sort, truncate, return
FetchFinish ==
    /\ pc = "fetch_sort"
    /\ reviews' = [asin \in DOMAIN candidates |-> Kept(candidates[asin], per_product)]
    /\ pc' = "fetch_return"
    /\ UNCHANGED <<price_vars, argv, raised, seen,
                   categories, products_per_category, reviews_per_product, all_products,
                   meta_i, review_asins_by_path, rev_i, all_reviews, full_catalog, output,
                   source, ds, scanned, category_configs, category_limits, results,
                   full_categories, asin_set, per_product, max_scan, candidates,
                   satisfied, opened, avail, log>>

-----------------------------------------------------------------------------
(* transform_product *)

\* category.lower().replace(" ", "_")
cat_slug(category) ==
    CASE category = "Wireless Headphones"  -> "wireless_headphones"
      [] category = "Smartwatches"         -> "smartwatches"
      [] category = "Mechanical Keyboards" -> "mechanical_keyboards"
      [] category = "Gaming Mice"          -> "gaming_mice"
      [] category = "Toothbrushes"         -> "toothbrushes"
      [] category = "Running Shoes"        -> "running_shoes"

DigitChar(d) ==
    CASE d = 0 -> "0" [] d = 1 -> "1" [] d = 2 -> "2" [] d = 3 -> "3" [] d = 4 -> "4"
      [] d = 5 -> "5" [] d = 6 -> "6" [] d = 7 -> "7" [] d = 8 -> "8" [] d = 9 -> "9"

RECURSIVE IntToDigits(_)
IntToDigits(n) ==
    IF n < 10 THEN <<DigitChar(n)>> ELSE Append(IntToDigits(n \div 10), DigitChar(n % 10))

\* f"{idx:03d}" for idx >= 0
Pad3(idx) ==
    LET digits == IntToDigits(idx)
    IN  [i \in 1..(3 - Min(3, Len(digits))) |-> "0"] \o digits

\* lines 239-261; the fields no modelled record carries (description,
\* features, rating, rating_number, store) are left out
transform_product(meta, revs, category, idx) ==
    [id          |-> <<"prod_", cat_slug(category), "_">> \o Pad3(idx),
     parent_asin |-> IF "parent_asin" \in DOMAIN meta THEN meta.parent_asin ELSE "",
     category    |-> category,
     title       |-> IF "title" \in DOMAIN meta THEN meta.title ELSE <<>>,
     base_price  |-> parse_price(GetText(meta, "price")),
     reviews     |-> [i \in 1..Len(revs) |->
                        [verified      |-> SortKey(revs[i])[1] = 1,
                         helpful_votes |-> SortKey(revs[i])[2]]],
     tags        |-> <<>>]

-----------------------------------------------------------------------------
(* main *)

NotWritten == [written |-> FALSE]

\* (mutant) any name is taken
Accepted_any(names) == TRUE

\* lines 266-267: nargs="+" with choices=list(CATEGORY_CONFIGS.keys())
Accepted(names) ==
    /\ Len(names) >= 1
    /\ \A i \in 1..Len(names) : names[i] \in CategoryNames

\* lines 265-271: parser.parse_args() binds args.categories, or reports the
\* error and exits
ParseArgs ==
    /\ pc = "parse_args"
    /\ IF Accepted(argv)
       THEN /\ categories' = argv
            /\ pc' = "main"
       ELSE /\ pc' = "exit_error"
            /\ UNCHANGED categories
    /\ UNCHANGED <<price_vars, argv, raised, seen,
                   products_per_category, reviews_per_product, all_products,
                   meta_i, review_asins_by_path, rev_i, all_reviews, full_catalog, output,
                   source, ds, scanned, category_configs, category_limits, results,
                   full_categories, asin_set, per_product, max_scan, candidates,
                   satisfied, reviews, opened, avail, log>>

\* lines 273-288
MainStart ==
    /\ pc = "main"
    /\ all_products' = [cat \in Range(Selected) |-> <<>>]
    /\ meta_i' = 1
    /\ pc' = "meta_loop"
    /\ UNCHANGED <<price_vars, argv, raised, seen,
                   categories, products_per_category, reviews_per_product,
                   review_asins_by_path, rev_i, all_reviews, full_catalog, output,
                   source, ds, scanned, category_configs, category_limits, results,
                   full_categories, asin_set, per_product, max_scan, candidates,
                   satisfied, reviews, opened, avail, log>>

\* lines 290-297: every category of the source is at capacity
MetaLoopSkip ==
    /\ pc = "meta_loop"
    /\ meta_i <= Len(meta_sources_by_path)
    /\ active_cats(meta_sources_by_path[meta_i]) = <<>>
    /\ meta_i' = meta_i + 1
    /\ UNCHANGED <<price_vars, argv, raised, seen,
                   pc, categories, products_per_category, reviews_per_product,
                   all_products, review_asins_by_path, rev_i, all_reviews, full_catalog,
                   output, source, ds, scanned, category_configs, category_limits,
                   results, full_categories, asin_set, per_product, max_scan, candidates,
                   satisfied, reviews, opened, avail, log>>

\* lines 290-299: the call of stream_metadata_multi(src, active_cats, limits)
MetaLoopCall ==
    /\ pc = "meta_loop"
    /\ meta_i <= Len(meta_sources_by_path)
    /\ LET src_path == meta_sources_by_path[meta_i]
           active   == active_cats(src_path)
       IN  /\ active # <<>>
           /\ source' = src_path
           /\ category_configs' = active
           /\ category_limits' =
                  [cat \in Range(active) |-> products_per_category - Len(all_products[cat])]
    /\ pc' = "smm_entry"
    /\ UNCHANGED <<price_vars, argv, raised, seen,
                   categories, products_per_category, reviews_per_product, all_products,
                   meta_i, review_asins_by_path, rev_i, all_reviews, full_catalog, output,
                   ds, scanned, results, full_categories, asin_set, per_product, max_scan,
                   candidates, satisfied, reviews, opened, avail, log>>

\* lines 301-303 for one category of the batch
Merged(products, batch_products) ==
    LET remaining == products_per_category - Len(products)
    IN  DictSetAll(products, Slice(batch_products, remaining))

\* lines 300-303: the batch is merged into all_products; the locals of the
\* returned call are gone
MetaMerge ==
    /\ pc = "smm_return"
    /\ all_products' = [cat \in DOMAIN all_products |->
                           IF cat \in DOMAIN results
                           THEN Merged(all_products[cat], results[cat])
                           ELSE all_products[cat]]
    /\ meta_i' = meta_i + 1
    /\ pc' = "meta_loop"
    /\ source' = ""
    /\ ds' = <<>>
    /\ scanned' = 0
    /\ category_configs' = <<>>
    /\ category_limits' = <<>>
    /\ results' = <<>>
    /\ full_categories' = {}
    /\ UNCHANGED <<price_vars, argv, raised, seen,
                   categories, products_per_category, reviews_per_product,
                   review_asins_by_path, rev_i, all_reviews, full_catalog, output,
                   asin_set, per_product, max_scan, candidates, satisfied, reviews,
                   opened, avail, log>>

\* lines 314-322: the metadata loop is over, the review index is built
ReviewIndex ==
    /\ pc = "meta_loop"
    /\ meta_i > Len(meta_sources_by_path)
    /\ review_asins_by_path' = ReviewAsinsIndex
    /\ all_reviews' = EmptyMap
    /\ rev_i' = 1
    /\ pc' = "review_loop"
    /\ UNCHANGED <<price_vars, argv, raised, seen,
                   categories, products_per_category, reviews_per_product, all_products,
                   meta_i, full_catalog, output, source, ds, scanned, category_configs,
                   category_limits, results, full_categories, asin_set, per_product,
                   max_scan, candidates, satisfied, reviews, opened, avail, log>>

\* lines 324-327: nothing is needed from the source
ReviewLoopSkip ==
    /\ pc = "review_loop"
    /\ rev_i <= Len(review_sources_by_path)
    /\ needed(review_sources_by_path[rev_i]) = {}
    /\ rev_i' = rev_i + 1
    /\ UNCHANGED <<price_vars, argv, raised, seen,
                   pc, categories, products_per_category, reviews_per_product,
                   all_products, meta_i, review_asins_by_path, all_reviews, full_catalog,
                   output, source, ds, scanned, category_configs, category_limits,
                   results, full_categories, asin_set, per_product, max_scan, candidates,
                   satisfied, reviews, opened, avail, log>>

\* lines 324-328: the call of fetch_reviews_multi(src, needed,
\* args.reviews_per_product), max_scan left at its default
ReviewLoopCall ==
    /\ pc = "review_loop"
    /\ rev_i <= Len(review_sources_by_path)
    /\ needed(review_sources_by_path[rev_i]) # {}
    /\ source' = review_sources_by_path[rev_i]
    /\ asin_set' = needed(review_sources_by_path[rev_i])
    /\ per_product' = reviews_per_product
    /\ max_scan' = DefaultMaxScan
    /\ pc' = "fetch_entry"
    /\ UNCHANGED <<price_vars, argv, raised, seen,
                   categories, products_per_category, reviews_per_product, all_products,
                   meta_i, review_asins_by_path, rev_i, all_reviews, full_catalog, output,
                   ds, scanned, category_configs, category_limits, results,
                   full_categories, candidates, satisfied, reviews, opened, avail, log>>

\* line 329: all_reviews.update(batch); the locals of the returned call are gone
ReviewUpdate ==
    /\ pc = "fetch_return"
    /\ all_reviews' = Update(all_reviews, reviews)
    /\ log' = Append(log, [path |-> source, asked |-> asin_set,
                            satisfied |-> satisfied, got |-> reviews])
    /\ rev_i' = rev_i + 1
    /\ pc' = "review_loop"
    /\ source' = ""
    /\ ds' = <<>>
    /\ scanned' = 0
    /\ asin_set' = {}
    /\ per_product' = 0
    /\ max_scan' = 0
    /\ candidates' = EmptyMap
    /\ satisfied' = {}
    /\ reviews' = EmptyMap
    /\ seen' = {}
    /\ UNCHANGED <<price_vars, argv, raised,
                   categories, products_per_category, reviews_per_product, all_products,
                   meta_i, review_asins_by_path, full_catalog, output, category_configs,
                   category_limits, results, full_categories, opened, avail>>

\* (mutant) a product without reviews is transformed like the others
RECURSIVE CategoryRecords_all(_, _, _)
CategoryRecords_all(cat, products, idx) ==
    IF idx > Len(products) THEN <<>>
    ELSE <<transform_product(products[idx],
                             GetOrEmpty(all_reviews, products[idx].parent_asin), cat, idx)>>
         \o CategoryRecords_all(cat, products, idx + 1)

\* lines 339-343 for one category: the records of the products with reviews
RECURSIVE CategoryRecords(_, _, _)
CategoryRecords(cat, products, idx) ==
    IF idx > Len(products) THEN <<>>
    ELSE LET meta == products[idx]
             revs == GetOrEmpty(all_reviews, meta.parent_asin)
         IN  (IF revs = <<>> THEN <<>>
              ELSE <<transform_product(meta, revs, cat, idx)>>)
             \o CategoryRecords(cat, products, idx + 1)

\* lines 336-344: the review loop is over, the catalog is built
Transform ==
    /\ pc = "review_loop"
    /\ rev_i > Len(review_sources_by_path)
    /\ full_catalog' =
          Flatten([i \in 1..Len(categories) |->
                      CategoryRecords(categories[i], all_products[categories[i]], 1)])
    /\ pc' = "write"
    /\ UNCHANGED <<price_vars, argv, raised, seen,
                   categories, products_per_category, reviews_per_product, all_products,
                   meta_i, review_asins_by_path, rev_i, all_reviews, output, source, ds,
                   scanned, category_configs, category_limits, results, full_categories,
                   asin_set, per_product, max_scan, candidates, satisfied, reviews,
                   opened, avail, log>>

\* lines 346-349: the catalog is written
Write ==
    /\ pc = "write"
    /\ output' = [written |-> TRUE, doc |-> full_catalog]
    /\ pc' = "done"
    /\ UNCHANGED <<price_vars, argv, raised, seen,
                   categories, products_per_category, reviews_per_product, all_products,
                   meta_i, review_asins_by_path, rev_i, all_reviews, full_catalog, source,
                   ds, scanned, category_configs, category_limits, results,
                   full_categories, asin_set, per_product, max_scan, candidates,
                   satisfied, reviews, opened, avail, log>>

\* (mutant) the failed pass is started again
Propagate_retry(at) == IF at = "smm_loop" THEN "smm_entry" ELSE "fetch_entry"

\* where control goes when the iteration of line 141 or line 197 raises:
\* neither the loops nor the calls of lines 298 and 328 are inside a try, so
\* the exception leaves main
Propagate(at) == "raised"

\* line 141: the stream raises instead of yielding or ending
SmmRaise ==
    /\ pc = "smm_loop"
    /\ raised' = source
    /\ pc' = Propagate("smm_loop")
    /\ UNCHANGED <<price_vars, argv, seen,
                   categories, products_per_category, reviews_per_product, all_products,
                   meta_i, review_asins_by_path, rev_i, all_reviews, full_catalog, output,
                   source, ds, scanned, category_configs, category_limits, results,
                   full_categories, asin_set, per_product, max_scan, candidates,
                   satisfied, reviews, opened, avail, log>>

\* line 197: the stream raises instead of yielding or ending
FetchRaise ==
    /\ pc = "fetch_loop"
    /\ raised' = source
    /\ pc' = Propagate("fetch_loop")
    /\ UNCHANGED <<price_vars, argv, seen,
                   categories, products_per_category, reviews_per_product, all_products,
                   meta_i, review_asins_by_path, rev_i, all_reviews, full_catalog, output,
                   source, ds, scanned, category_configs, category_limits, results,
                   full_categories, asin_set, per_product, max_scan, candidates,
                   satisfied, reviews, opened, avail, log>>

-----------------------------------------------------------------------------
(* Specifications *)

\* the locals and history before anything has run
Idle ==
    /\ all_products = EmptyMap
    /\ meta_i = 0
    /\ review_asins_by_path = EmptyMap
    /\ rev_i = 0
    /\ all_reviews = EmptyMap
    /\ full_catalog = <<>>
    /\ output = NotWritten
    /\ ds = <<>>
    /\ scanned = 0
    /\ category_configs = <<>>
    /\ category_limits = <<>>
    /\ results = <<>>
    /\ full_categories = {}
    /\ candidates = EmptyMap
    /\ satisfied = {}
    /\ reviews = EmptyMap
    /\ opened = [meta |-> [p \in MetaPaths |-> 0], review |-> [p \in ReviewPaths |-> 0]]
    /\ avail = [c \in CategoryNames |-> {}]
    /\ log = <<>>
    /\ seen = {}
    /\ raised = ""
    /\ arg_price_str = NoneText
    /\ ret_value = NoneVal

\* main is entered with any modelled command line
Init ==
    /\ pc = "parse_args"
    /\ argv \in CommandLines \cup RejectedLines
    /\ categories = <<>>
    /\ products_per_category \in 0..MaxProducts
    /\ reviews_per_product \in 0..MaxReviews
    /\ source = ""
    /\ asin_set = {}
    /\ per_product = 0
    /\ max_scan = 0
    /\ Idle

Next ==
    \/ ParseArgs
    \/ MainStart
    \/ MetaLoopSkip
    \/ MetaLoopCall
    \/ SmmEntry
    \/ SmmRecord
    \/ SmmExhausted
    \/ MetaMerge
    \/ ReviewIndex
    \/ ReviewLoopSkip
    \/ ReviewLoopCall
    \/ FetchEntry
    \/ FetchRecord
    \/ FetchExhausted
    \/ FetchFinish
    \/ ReviewUpdate
    \/ Transform
    \/ Write

Spec == Init /\ [][Next]_vars

\* the runs of main in which a source stream may raise while it is read
NextRaise ==
    \/ Next
    \/ SmmRaise
    \/ FetchRaise

SpecRaise == Init /\ [][NextRaise]_vars

\* the keys a call of fetch_reviews_multi is tried with
AsinUniverse == {"B01", "B02"}

\* one call of fetch_reviews_multi: any key set, a cap of at least one review
\* and any scan ceiling from 0
InitFetch ==
    /\ pc = "fetch_entry"
    /\ argv = <<>>
    /\ categories = <<>>
    /\ products_per_category = 0
    /\ reviews_per_product = 0
    /\ source = "review_categories/Electronics"
    /\ asin_set \in SUBSET AsinUniverse
    /\ per_product \in 1..MaxReviews
    /\ max_scan \in 0..MaxScan
    /\ Idle

NextFetch ==
    \/ FetchEntry
    \/ FetchRecord
    \/ FetchExhausted
    \/ FetchFinish

SpecFetch == InitFetch /\ [][NextFetch]_vars

\* the category lists a pass of stream_metadata_multi is tried with
PassConfigs ==
    { <<"Smartwatches">>, <<"Wireless Headphones">>,
      <<"Smartwatches", "Wireless Headphones">> }

\* one call of stream_metadata_multi on a source of the given categories,
\* each category with a capacity of at least one
InitMeta ==
    /\ pc = "smm_entry"
    /\ argv = <<>>
    /\ categories = <<>>
    /\ products_per_category = 0
    /\ reviews_per_product = 0
    /\ source = "raw_meta_Electronics"
    /\ asin_set = {}
    /\ per_product = 0
    /\ max_scan = 0
    /\ all_products = EmptyMap
    /\ meta_i = 0
    /\ review_asins_by_path = EmptyMap
    /\ rev_i = 0
    /\ all_reviews = EmptyMap
    /\ full_catalog = <<>>
    /\ output = NotWritten
    /\ ds = <<>>
    /\ scanned = 0
    /\ category_configs \in PassConfigs
    /\ category_limits \in [Range(category_configs) -> 1..MaxProducts]
    /\ results = <<>>
    /\ full_categories = {}
    /\ candidates = EmptyMap
    /\ satisfied = {}
    /\ reviews = EmptyMap
    /\ opened = [meta |-> [p \in MetaPaths |-> 0], review |-> [p \in ReviewPaths |-> 0]]
    /\ avail = [c \in CategoryNames |-> {}]
    /\ log = <<>>
    /\ seen = {}
    /\ raised = ""
    /\ arg_price_str = NoneText
    /\ ret_value = NoneVal

NextMeta ==
    \/ SmmEntryAlone
    \/ SmmRecord
    \/ SmmExhausted

SpecMeta == InitMeta /\ [][NextMeta]_vars

\* the characters the price texts are built from: a sign, digits, the decimal
\* point and a currency sign
PriceChars == {"-", "0", "5", ".", "$"}

\* the price texts parse_price is tried with, and a missing price
PriceTexts ==
    SeqsUpTo(PriceChars, MaxPriceLen)
      \cup { NoneText,
             <<"N", "o", "n", "e">>,
             <<"0", ".", "0", "0">>,
             <<"-", "1", "2", ".", "9", "9">>,
             <<"$", "1", ",", "2", "3", "4", ".", "5", "6">> }

\* lines 79-89: one call of parse_price
ParsePrice ==
    /\ pc = "price_call"
    /\ ret_value' = parse_price(arg_price_str)
    /\ pc' = "price_return"
    /\ UNCHANGED <<arg_price_str, argv, raised, seen,
                   categories, products_per_category, reviews_per_product, all_products,
                   meta_i, review_asins_by_path, rev_i, all_reviews, full_catalog, output,
                   source, ds, scanned, category_configs, category_limits, results,
                   full_categories, asin_set, per_product, max_scan, candidates,
                   satisfied, reviews, opened, avail, log>>

\* one call of parse_price on any of the price texts
InitPrice ==
    /\ pc = "price_call"
    /\ argv = <<>>
    /\ categories = <<>>
    /\ products_per_category = 0
    /\ reviews_per_product = 0
    /\ source = ""
    /\ asin_set = {}
    /\ per_product = 0
    /\ max_scan = 0
    /\ all_products = EmptyMap
    /\ meta_i = 0
    /\ review_asins_by_path = EmptyMap
    /\ rev_i = 0
    /\ all_reviews = EmptyMap
    /\ full_catalog = <<>>
    /\ output = NotWritten
    /\ ds = <<>>
    /\ scanned = 0
    /\ category_configs = <<>>
    /\ category_limits = <<>>
    /\ results = <<>>
    /\ full_categories = {}
    /\ candidates = EmptyMap
    /\ satisfied = {}
    /\ reviews = EmptyMap
    /\ opened = [meta |-> [p \in MetaPaths |-> 0], review |-> [p \in ReviewPaths |-> 0]]
    /\ avail = [c \in CategoryNames |-> {}]
    /\ log = <<>>
    /\ seen = {}
    /\ raised = ""
    /\ arg_price_str \in PriceTexts
    /\ ret_value = NoneVal

NextPrice == ParsePrice

SpecPrice == InitPrice /\ [][NextPrice]_vars

-----------------------------------------------------------------------------
(* Properties *)

\* position of a path in review_sources_by_path (0 when absent)
ReviewIndexOf(path) ==
    IF path \in Range(review_sources_by_path)
    THEN CHOOSE i \in 1..Len(review_sources_by_path) : review_sources_by_path[i] = path
    ELSE 0

\* the pairs <<p, q>> where q is the review source configured right after p
\* for the category
NextSourcePairs(cat) ==
    {<<ReviewPathsOf(cat)[i], ReviewPathsOf(cat)[i + 1]>> :
        i \in 1..(Len(ReviewPathsOf(cat)) - 1)}

\* the main loop over the review sources has dealt with the path
ReviewLoopPast(path) == pc \in {"review_loop", "write", "done"} /\ ReviewIndexOf(path) < rev_i

InFetch == pc \in {"fetch_loop", "fetch_sort", "fetch_return"}

\* the rank the reviews are ordered by: verified purchase as 1/0, then the
\* helpful-vote count, a missing count read as 0
Rank(r) ==
    <<IF "verified_purchase" \in DOMAIN r /\ r.verified_purchase THEN 1 ELSE 0,
      IF "helpful_vote" \in DOMAIN r THEN r.helpful_vote ELSE 0>>

RankGreater(a, b) == a[1] > b[1] \/ (a[1] = b[1] /\ a[2] > b[2])

NonIncreasing(revs) ==
    \A i, j \in 1..Len(revs) : i < j => ~RankGreater(Rank(revs[j]), Rank(revs[i]))

\* C1: each unique metadata source path is opened at most once in the
\* metadata phase and each unique review source path at most once in the
\* review phase, however many categories list it.
C1_EachSourceOpenedAtMostOnce ==
    /\ \A p \in MetaPaths : opened.meta[p] <= 1
    /\ \A p \in ReviewPaths : opened.review[p] <= 1

\* C1 witness: a finished run of two categories that both list the
\* Electronics sources and both collected from them, each opened once.
C1_Witness ==
    /\ pc = "done"
    /\ Len(Selected) = 2
    /\ \A c \in Range(Selected) :
          /\ "raw_meta_Electronics" \in Range(MetaPathsOf(c))
          /\ all_products[c] # <<>>
    /\ opened.meta["raw_meta_Electronics"] = 1
    /\ opened.review["review_categories/Electronics"] = 1

\* C2: in fetch_reviews_multi the number of records read from the stream
\* never exceeds max_scan.
C2_ScanNeverExceedsMaxScan == InFetch => scanned <= max_scan

\* C3: fetch_reviews_multi called with max_scan = 0 and a non-empty key set
\* returns an empty map.
C3_MaxScanZeroReturnsEmpty ==
    (pc = "fetch_return" /\ max_scan = 0 /\ asin_set # {}) => reviews = EmptyMap

C5_SatisfiedKeyNeverRequestedAgain ==
    /\ \A i, j \in 1..Len(log) : i < j => log[i].satisfied \cap log[j].asked = {}
    /\ pc \in {"fetch_entry", "fetch_loop", "fetch_sort", "fetch_return"} =>
          \A i \in 1..Len(log) : log[i].satisfied \cap asin_set = {}

\* C5 witness: the first source satisfied one key that the second source's
\* category also holds, and the second source was asked for another key.
C5_Witness ==
    /\ Len(log) = 2
    /\ log[1].satisfied \cap review_asins_by_path[log[2].path] # {}
    /\ log[2].asked # {}

\* C6: at every point of the metadata phase, inside a pass and between
\* passes, the number of keys collected for a category is at most
\* products_per_category.
C6_CollectedAtMostCapacity ==
    \A c \in DOMAIN all_products :
      /\ Len(all_products[c]) <= products_per_category
      /\ c \in DOMAIN results =>
            Cardinality(Keys(all_products[c]) \cup Keys(results[c])) <= products_per_category

\* C6 witness: inside the pass over a category's second source the category
\* reaches its capacity with keys from both sources.
C6_Witness ==
    /\ pc \in {"smm_loop", "smm_return"}
    /\ \E c \in DOMAIN results :
          /\ all_products[c] # <<>>
          /\ Keys(results[c]) \ Keys(all_products[c]) # {}
          /\ Cardinality(Keys(all_products[c]) \cup Keys(results[c])) = products_per_category

\* C7: after the metadata phase, a category whose sources hold at least
\* products_per_category distinct keys of valid matching records has
\* collected exactly products_per_category keys.
C7_CapacityFilledWhenAvailable ==
    pc \in {"review_loop", "write", "done"} =>
      \A c \in Range(Selected) :
        Cardinality(avail[c]) >= products_per_category =>
          Len(all_products[c]) = products_per_category

\* C8: every review sequence of the map returned by fetch_reviews_multi and
\* of the accumulated review map has at most reviews_per_product entries.
C8_ReviewsAtMostCap ==
    /\ \A k \in DOMAIN reviews : Len(reviews[k]) <= per_product
    /\ \A k \in DOMAIN all_reviews : Len(all_reviews[k]) <= reviews_per_product

\* C8 witness: with a cap of at least two, a key accumulated from an earlier
\* source holds exactly the cap and the pass over a later source returns
\* exactly the cap for another key.
C8_Witness ==
    /\ pc = "fetch_return"
    /\ reviews_per_product >= 2
    /\ \E k \in DOMAIN reviews : Len(reviews[k]) = per_product
    /\ \E k \in DOMAIN all_reviews : Len(all_reviews[k]) = reviews_per_product

\* C9: every returned and every accumulated review sequence is sorted
\* non-increasing by (verified purchase, helpful votes).
C9_ReviewsSortedNonIncreasing ==
    /\ \A k \in DOMAIN reviews : NonIncreasing(reviews[k])
    /\ \A k \in DOMAIN all_reviews : NonIncreasing(all_reviews[k])

\* C9 witness: a pass returns two reviews of a key in another order than it
\* read them.
C9_Witness ==
    /\ pc = "fetch_return"
    /\ \E k \in DOMAIN reviews :
          /\ Len(reviews[k]) = 2
          /\ reviews[k] # candidates[k]
          /\ RankGreater(Rank(reviews[k][1]), Rank(reviews[k][2]))

\* the records of the catalog that carry the category
RecordsOf(cat) == {i \in 1..Len(full_catalog) : full_catalog[i].category = cat}

GivenOnce(cat) == Cardinality({i \in 1..Len(categories) : categories[i] = cat}) = 1

WithReviews(cat) ==
    {k \in Keys(all_products[cat]) : GetOrEmpty(all_reviews, k) # <<>>}

\* C10: for a category given once, the final catalog holds a record for a key
\* of the category exactly when the key was collected for it and has a
\* non-empty review sequence, and as many records as there are such keys.
C10_CatalogIsProductsWithReviews ==
    pc \in {"write", "done"} =>
      \A c \in Range(categories) : GivenOnce(c) =>
        /\ {full_catalog[i].parent_asin : i \in RecordsOf(c)} = WithReviews(c)
        /\ Cardinality(RecordsOf(c)) = Cardinality(WithReviews(c))

\* C10 witness: a written catalog of a category that collected two keys,
\* one emitted and one dropped for having no reviews.
C10_Witness ==
    /\ pc = "done"
    /\ \E c \in Range(categories) :
          /\ GivenOnce(c)
          /\ Len(all_products[c]) = 2
          /\ Cardinality(RecordsOf(c)) = 1
          /\ output.doc = full_catalog

\* the enumeration index carried by the id of a record: the digits behind
\* "prod_", the slug and "_"
IdIndex(rec) == DigitsToInt(SubSeq(rec.id, 4, Len(rec.id)))

\* 1-based position of a key in the collected metadata of a category (0 when
\* the key was not collected)
PositionOf(cat, asin) ==
    LET at == {i \in 1..Len(all_products[cat]) : all_products[cat][i].parent_asin = asin}
    IN  IF at = {} THEN 0 ELSE CHOOSE i \in at : TRUE

\* C11: within one category the ids of the emitted records are pairwise
\* distinct and strictly increasing, and the numeric part of an id is the
\* 1-based position of the key in the category's collected metadata.
C11_IdsDistinctIncreasingByPosition ==
    pc \in {"write", "done"} =>
      \A i \in 1..Len(full_catalog) :
        /\ IdIndex(full_catalog[i]) =
              PositionOf(full_catalog[i].category, full_catalog[i].parent_asin)
        /\ \A j \in (i + 1)..Len(full_catalog) :
              full_catalog[i].category = full_catalog[j].category =>
                /\ full_catalog[i].id # full_catalog[j].id
                /\ IdIndex(full_catalog[i]) < IdIndex(full_catalog[j])

\* position of the first mention of a category on the command line
FirstGiven(cat) == CHOOSE i \in 1..Len(categories) :
    /\ categories[i] = cat
    /\ \A j \in 1..(i - 1) : categories[j] # cat

\* C12: the written array lists the records category by category in
\* command-line order, never interleaved, and within a category in
\* ascending enumeration index.
C12_ArrayByCategoryThenIndex ==
    output.written =>
      \A i \in 1..Len(output.doc) : \A j \in (i + 1)..Len(output.doc) :
        /\ FirstGiven(output.doc[i].category) <= FirstGiven(output.doc[j].category)
        /\ output.doc[i].category = output.doc[j].category =>
              IdIndex(output.doc[i]) < IdIndex(output.doc[j])

\* C13: with a requested name outside the registry the run ends at argument
\* parsing: no metadata or review source is opened and nothing is written.
C13_UnknownCategoryRejectedAtParsing ==
    (\E i \in 1..Len(argv) : argv[i] \notin CategoryNames) =>
      /\ pc \in {"parse_args", "exit_error"}
      /\ \A p \in MetaPaths : opened.meta[p] = 0
      /\ \A p \in ReviewPaths : opened.review[p] = 0
      /\ output = NotWritten

\* C13 witness: a command line with a registered and an unregistered name
\* has been rejected.
C13_Witness ==
    /\ pc = "exit_error"
    /\ \E i \in 1..Len(argv) : argv[i] \in CategoryNames
    /\ \E i \in 1..Len(argv) : argv[i] \notin CategoryNames

\* a text of digits with at most one decimal point and at least one digit
IsPlainNumber(text) ==
    /\ \A i \in 1..Len(text) : text[i] \in Digits \cup {"."}
    /\ Cardinality({i \in 1..Len(text) : text[i] = "."}) <= 1
    /\ \E i \in 1..Len(text) : text[i] \in Digits

\* the text writes the number zero
IsZeroText(text) ==
    /\ IsPlainNumber(text)
    /\ \A i \in 1..Len(text) : text[i] \in {"0", "."}

\* the text writes a number below zero: a minus sign and a non-zero number
IsNegativeText(text) ==
    /\ Len(text) >= 2
    /\ text[1] = "-"
    /\ IsPlainNumber(Tail(text))
    /\ ~IsZeroText(Tail(text))

\* the text holds no digit at all
HasNoNumber(text) == \A i \in 1..Len(text) : text[i] \notin Digits

\* C14: parse_price returns None for a text writing zero or a negative
\* number, for the empty text, the text "None" and a text without a number.
C14_NonPositivePriceIsMissing ==
    pc = "price_return" =>
      ((\/ arg_price_str = NoneText
        \/ arg_price_str = <<>>
        \/ arg_price_str = <<"N", "o", "n", "e">>
        \/ HasNoNumber(arg_price_str)
        \/ IsZeroText(arg_price_str)
        \/ IsNegativeText(arg_price_str))
       => ret_value = NoneVal)

\* every category handed to the pass holds as many records as its capacity
AllAtCapacity ==
    \A c \in Range(category_configs) : Len(results[c]) >= category_limits[c]

\* C15: stream_metadata_multi reads no record once every category passed in
\* has reached its capacity: while the loop is still reading, some category
\* is below its capacity.
C15_NoReadOnceAllCategoriesFull ==
    pc = "smm_loop" => ~AllAtCapacity

\* C15 witness: the pass over two categories has returned with both at
\* capacity and records left unread in the stream.
C15_Witness ==
    /\ pc = "smm_return"
    /\ Len(category_configs) = 2
    /\ AllAtCapacity
    /\ ds # <<>>
    /\ scanned >= 2

\* some requested key holds fewer reviews than per_product
SomeKeyBelowCap ==
    \E k \in asin_set : Len(GetOrEmpty(candidates, k)) < per_product

\* the step reads a record from the review stream
ReadsReview == pc = "fetch_loop" /\ scanned' = scanned + 1

BlankTitle(rec) ==
    \/ "title" \notin DOMAIN rec
    \/ \A i \in 1..Len(rec.title) : rec.title[i] = " "

\* parse_price reports the price of the record missing
PriceMissing(rec) ==
    \/ "price" \notin DOMAIN rec
    \/ parse_price(rec.price) = NoneVal

\* the record has no parent key
KeyAbsent(rec) ==
    \/ "parent_asin" \notin DOMAIN rec
    \/ rec.parent_asin = ""

\* C17: in stream_metadata_multi a record with a blank title, a price that
\* parse_price reports missing or an absent parent key is in no category's
\* result, whatever the keyword filters and remaining capacities.
C17_InvalidRecordInNoResult ==
    \A c \in DOMAIN results : \A i \in 1..Len(results[c]) :
        /\ ~BlankTitle(results[c][i])
        /\ ~PriceMissing(results[c][i])
        /\ ~KeyAbsent(results[c][i])

\* C17 witness: the pass over both categories, whose filters every valid
\* record of the stream matches, has read one record and inserted it nowhere,
\* and goes on reading.
C17_Witness ==
    /\ pc = "smm_loop"
    /\ Len(category_configs) = 2
    /\ scanned = 1
    /\ \A c \in DOMAIN results : results[c] = <<>>
    /\ ds # <<>>

\* the step reads a record from the metadata stream
ReadsMeta == pc = "smm_loop" /\ scanned' = scanned + 1

\* the record passes the validity test
ValidRecord(rec) == ~BlankTitle(rec) /\ ~PriceMissing(rec) /\ ~KeyAbsent(rec)

\* the category is below its capacity, does not hold the key of the record
\* and its keywords match the record
Takes(c, rec) ==
    /\ Len(results[c]) < category_limits[c]
    /\ \A i \in 1..Len(results[c]) : results[c][i].parent_asin # rec.parent_asin
    /\ matches_keywords(rec, CATEGORY_CONFIGS[c].keywords)

\* C18: within one metadata pass each category enforces its own capacity: a
\* valid record read is appended to the result of category c exactly when c
\* is below its capacity, does not hold the key and matches the record; the
\* result of every other category is left as it is.
C18_EachCategoryOwnCapacity ==
    [][(ReadsMeta /\ ValidRecord(Head(ds))) =>
          \A c \in DOMAIN results :
             results'[c] = IF Takes(c, Head(ds))
                           THEN Append(results[c], Head(ds)) ELSE results[c]]_vars

\* C18 witness: capacity 1 for Smartwatches and 2 for Wireless Headphones,
\* a record matching both, one matching Smartwatches only and one matching
\* Wireless Headphones only have been read: Smartwatches holds the first,
\* Wireless Headphones the first and the third.
C18_Witness ==
    /\ pc = "smm_return"
    /\ category_configs = <<"Smartwatches", "Wireless Headphones">>
    /\ category_limits["Smartwatches"] = 1
    /\ category_limits["Wireless Headphones"] = 2
    /\ scanned = 3
    /\ Len(results["Smartwatches"]) = 1
    /\ Len(results["Wireless Headphones"]) = 2
    /\ results["Smartwatches"][1] = results["Wireless Headphones"][1]
    /\ results["Wireless Headphones"][2].parent_asin = "B03"
    /\ "B02" \in avail["Smartwatches"] \ avail["Wireless Headphones"]

\* a call of stream_metadata_multi is being made or has just returned
InSmm == pc \in {"smm_entry", "smm_loop", "smm_return"}

\* C19: no category that already holds products_per_category keys is passed
\* to stream_metadata_multi, and every call, the only place a metadata source
\* is opened, is passed at least one category of the source, so a source
\* whose categories are all at capacity is never opened.
C19_FullCategoryNotPassedFullSourceNotOpened ==
    InSmm =>
      /\ category_configs # <<>>
      /\ \A c \in Range(category_configs) :
            /\ Len(all_products[c]) < products_per_category
            /\ source \in Range(MetaPathsOf(c))

\* C19 witness: the metadata loop is over; Smartwatches reached its capacity
\* from its first source and its second source was never opened.
C19_Witness ==
    /\ pc = "review_loop"
    /\ products_per_category >= 1
    /\ "Smartwatches" \in Range(categories)
    /\ Len(all_products["Smartwatches"]) = products_per_category
    /\ opened.meta["raw_meta_Electronics"] = 1
    /\ opened.meta["raw_meta_Cell_Phones_and_Accessories"] = 0

\* C20: for each requested product the reviews kept by fetch_reviews_multi
\* are the highest-ranked among the reviews of the product that the pass
\* read: no review that was read and left out ranks strictly higher than a
\* review that was kept.
C20_KeptReviewsAreHighestRankedRead ==
    pc = "fetch_return" =>
      \A k \in DOMAIN reviews :
        \A r \in {x \in seen : x.parent_asin = k} :
          (\A i \in 1..Len(reviews[k]) : reviews[k][i] # r) =>
             \A i \in 1..Len(reviews[k]) : ~RankGreater(Rank(r), Rank(reviews[k][i]))

\* C22: for every accepted command line, a repeated category name included,
\* no two records of the final catalog carry the same id and no product of a
\* category is emitted twice.
C22_NoRecordEmittedTwice ==
    pc \in {"write", "done"} =>
      \A i \in 1..Len(full_catalog) : \A j \in 1..Len(full_catalog) :
        i # j =>
          /\ full_catalog[i].id # full_catalog[j].id
          /\ ~(/\ full_catalog[i].category = full_catalog[j].category
               /\ full_catalog[i].parent_asin = full_catalog[j].parent_asin)

\* C23: a review sequence recorded in all_reviews for a key is never
\* replaced, extended or removed afterwards.
C23_RecordedReviewsNeverChanged ==
    [][\A k \in DOMAIN all_reviews :
          k \in DOMAIN all_reviews' /\ all_reviews'[k] = all_reviews[k]]_vars

\* C23 witness: two passes have returned reviews, and a key recorded from the
\* first pass is also listed under the source of the second.
C23_Witness ==
    /\ pc = "review_loop"
    /\ Len(log) = 2
    /\ log[2].got # EmptyMap
    /\ \E k \in DOMAIN log[1].got :
          /\ log[1].got[k] # <<>>
          /\ k \in review_asins_by_path[log[2].path]
          /\ all_reviews[k] = log[1].got[k]

\* the step merges the batch of a returned metadata pass into all_products
MergesBatch == pc = "smm_return" /\ pc' = "meta_loop"

\* C24: the pass over a later metadata source changes neither the stored
\* record nor the position of a key already collected for a category, and a
\* repeated key uses up no capacity: every record the pass collected for the
\* category becomes a new key of it.
C24_CollectedKeyUntouchedByLaterSource ==
    [][MergesBatch =>
         \A c \in DOMAIN results :
            /\ \A i \in 1..Len(all_products[c]) :
                  all_products'[c][i] = all_products[c][i]
            /\ Len(all_products'[c]) = Len(all_products[c]) + Len(results[c])]_vars

\* C25: every record of the final catalog has a non-blank title, a non-empty
\* parent key and a base_price that is present and strictly positive.
C25_CatalogRecordsPassedValidity ==
    pc \in {"write", "done"} =>
      \A i \in 1..Len(full_catalog) :
        /\ \E j \in 1..Len(full_catalog[i].title) : full_catalog[i].title[j] # " "
        /\ full_catalog[i].parent_asin # ""
        /\ full_catalog[i].base_price # NoneVal
        /\ full_catalog[i].base_price.num > 0

\* C25 witness: a written catalog with a record, from a run whose metadata
\* source of the category was read to its end.
C25_Witness ==
    /\ pc = "done"
    /\ output.doc # <<>>
    /\ \E c \in Range(categories) :
          /\ all_products[c] # <<>>
          /\ Len(all_products[c]) < products_per_category

\* no source of the sequence behind position i has been opened
NoneOpenedBehind(paths, i, counts) ==
    \A j \in (i + 1)..Len(paths) : counts[paths[j]] = 0

\* C21: there are no retries: once a source stream has raised while being
\* read, the run is over: the source has been opened once and is not opened
\* again, no later source is opened and no catalog is written.
C21_RaiseAbortsWithoutRetry ==
    raised # "" =>
      /\ pc = "raised"
      /\ output = NotWritten
      /\ full_catalog = <<>>
      /\ IF raised \in MetaPaths
         THEN /\ opened.meta[raised] = 1
              /\ NoneOpenedBehind(meta_sources_by_path, meta_i, opened.meta)
              /\ \A p \in ReviewPaths : opened.review[p] = 0
         ELSE /\ opened.review[raised] = 1
              /\ NoneOpenedBehind(review_sources_by_path, rev_i, opened.review)

\* C21 witness: the stream of the first review source of Smartwatches raised
\* after a record had been read and collected, with the second review
\* source still ahead.
C21_Witness ==
    /\ pc = "raised"
    /\ raised = "review_categories/Electronics"
    /\ scanned >= 1
    /\ candidates # EmptyMap
    /\ "Smartwatches" \in Range(categories)
    /\ opened.review["review_categories/Cell_Phones_and_Accessories"] = 0

====
